---- MODULE Spec2Model ----
(***************************************************************************)
(* Offset pagination of go-pagination.  The repository carries several     *)
(* versions and parts of the package:                                      *)
(*   "pagination.go"  InitPagiantion / GeneratePaginationLinks             *)
(*   "part_004"       InitPagination / GeneratePaginationLinks (+ total,   *)
(*                    last_page in the meta, From clamped)                 *)
(*   "part_003"       the Pagination object: New, Query, Count,            *)
(*                    GenerateResponse                                     *)
(*   "helpers.go"     the helpers over BindPagination / PaginatedQuery /   *)
(*                    CalculatePagination (those three are not in the      *)
(*                    sources and follow the specification)                *)
(*   "README.md"      the filters of the README with their Validate        *)
(*   "examples"       the filters of examples/ with their ApplyFilters      *)
(*   "builder"        the field validator and the query builder that it    *)
(*                    gates (not in the sources, after the specification)  *)
(* A build links exactly one of them; impl records which one.              *)
(* Spec is the handling of one request; SpecConcurrent and SpecReads are   *)
(* the handler of the README run for requests at once and against a table  *)
(* that is written to; SpecNavigate is a client that follows the links.    *)
(***************************************************************************)
EXTENDS Integers, Sequences, FiniteSets, TLC

VARIABLES impl,    \* the version of the package that is linked
          c,       \* the inbound request of the gin context
          db,      \* number of rows of the model's table (rows are 1..db)
          dbErr,   \* the error the data store answers with, Nil when healthy
          p,       \* the *Pagination of the handler (part_003), Nil before New
          f,       \* the filter of the handler (README filters), Nil otherwise
          queried, \* history: p.Query() has been called in this handler
          ret,     \* what the last call returned to the handler
          sharedDB, \* the *gorm.DB that concurrent handlers were given
          hs,      \* the handlers of concurrent requests, by their name
          nav      \* a client that follows the links, Nil when there is none

vars == <<impl, c, db, dbErr, p, f, queried, ret, sharedDB, hs, nav>>

\* ---------------------------------------------------------------- bounds
MaxSize == 3      \* largest page[size] a request asks for
MaxNumber == 4    \* largest page[number] a request asks for
MaxTotal == 12     \* largest number of rows in the table
MaxIncludes == 3  \* largest number of include names a request asks for
MaxNameLen == 3   \* longest candidate field name, in characters
MaxFieldValue == 1  \* largest value of an int field of an example filter

\* ------------------------------------------------------------- constants
DefaultPageSize == 10
DefaultPageNumber == 1
PageSizeQuery == "page[size]"
PageNumberQuery == "page[number]"

DEFAULT_PAGE_SIZE == 10
DEFAULT_PAGE_NUMBER == 1
DEFAULT_PAGE_SIZE_QUERY == "page[size]"
DEFAULT_PAGE_NUMBER_QUERY == "page[number]"

Nil == [nil |-> TRUE]

Impls ==
  {"pagination.go", "part_004", "part_003", "helpers.go", "README.md",
   "examples", "builder"}

\* ------------------------------------------------------- Go primitives
Abs(n) == IF n < 0 THEN -n ELSE n

\* Go's integer division truncates toward zero.
GoDiv(a, b) ==
  LET q == Abs(a) \div Abs(b)
  IN  IF (a < 0) # (b < 0) THEN -q ELSE q

Digit(d) == <<"0", "1", "2", "3", "4", "5", "6", "7", "8", "9">>[d + 1]

RECURSIVE NatStr(_)
NatStr(n) == IF n < 10 THEN Digit(n) ELSE NatStr(n \div 10) \o Digit(n % 10)

\* strconv.Itoa
Itoa(n) == IF n < 0 THEN "-" \o NatStr(-n) ELSE NatStr(n)

\* ------------------------------------------------------------ url.Values
\* url.Values is map[string][]string.
ValuesGet(q, k) == IF k \in DOMAIN q /\ Len(q[k]) > 0 THEN q[k][1] ELSE ""

ValuesSet(q, k, v) ==
  [x \in (DOMAIN q) \cup {k} |-> IF x = k THEN <<v>> ELSE q[x]]

ValuesDel(q, k) == [x \in (DOMAIN q) \ {k} |-> q[x]]

\* The keys that occur, in the byte order Encode sorts them by.
SortedKeys == <<"page", "page[number]", "page[size]", "per_page", "search">>

RECURSIVE EncodeFrom(_, _)
EncodeFrom(q, i) ==
  IF i > Len(SortedKeys) THEN <<>>
  ELSE LET k == SortedKeys[i]
           here == IF k \in DOMAIN q
                   THEN [j \in 1..Len(q[k]) |-> <<k, q[k][j]>>]
                   ELSE <<>>
       IN  here \o EncodeFrom(q, i + 1)

\* Values.Encode: the key=value pairs, sorted by key.
Encode(q) == EncodeFrom(q, 1)

\* baseURL + "?" + queryParams.Encode()
Link(baseURL, q) == [base |-> baseURL, query |-> Encode(q)]

\* the documented maximum of items per page
MaxPerPage == 100

\* --------------------------------------------------------------- binding
\* the integers the request parameters of the model can spell
BindRange == (0 - 1)..(MaxSize + MaxNumber) \cup {MaxPerPage + 1}

\* The int field of a form binding: a missing or empty parameter leaves 0,
\* a decimal string gives its value, anything else is a binding error.
BindInt(q, k) ==
  LET s == ValuesGet(q, k)
  IN  IF s = "" THEN [ok |-> TRUE, n |-> 0]
      ELSE IF \E n \in BindRange : Itoa(n) = s
           THEN [ok |-> TRUE, n |-> CHOOSE n \in BindRange : Itoa(n) = s]
           ELSE [ok |-> FALSE, n |-> 0]

\* c.ShouldBindQuery(&req) into a PaginationRequest
ShouldBindQuery(q) ==
  LET s == BindInt(q, "page[size]")
      n == BindInt(q, "page[number]")
  IN  IF s.ok /\ n.ok
      THEN [err |-> FALSE, req |-> [Size |-> s.n, Number |-> n.n]]
      ELSE [err |-> TRUE, req |-> [Size |-> 0, Number |-> 0]]

\* ------------------------------------------------ pagination.go (oldest)
\* InitPagiantion without the clamp of to.
InitPagiantion_noClampTo(req, lengthModel) ==
  LET size == IF req.Size = 0 THEN DEFAULT_PAGE_SIZE ELSE req.Size
      number == IF req.Number = 0 THEN DEFAULT_PAGE_NUMBER ELSE req.Number
      offset == (number - 1) * size
      from == offset + 1
      to == offset + size
  IN  [Size |-> size, Number |-> number, Offset |-> offset,
       From |-> from, To |-> to]

InitPagiantion(req, lengthModel) ==
  LET size == IF req.Size = 0 THEN DEFAULT_PAGE_SIZE ELSE req.Size
      number == IF req.Number = 0 THEN DEFAULT_PAGE_NUMBER ELSE req.Number
      offset == (number - 1) * size
      from == offset + 1
      to0 == offset + size
      to == IF to0 > lengthModel THEN lengthModel ELSE to0
  IN  [Size |-> size, Number |-> number, Offset |-> offset,
       From |-> from, To |-> to]

\* GeneratePaginationLinks with prev also on page 1 (>= for >).
GeneratePaginationLinks_pagination_go_prevOnFirstPage(cc, req, lengthModel) ==
  LET request == InitPagiantion(req, lengthModel)
      baseURL == cc.Scheme \o "://" \o cc.Host \o cc.Path
      q0 == ValuesSet(<<>>, DEFAULT_PAGE_SIZE_QUERY, Itoa(request.Size))
      q1 == ValuesSet(q0, DEFAULT_PAGE_NUMBER_QUERY, Itoa(DEFAULT_PAGE_NUMBER))
      first == Link(baseURL, q1)
      lastPage == GoDiv(lengthModel + request.Size - 1, request.Size)
      q2 == ValuesSet(q1, DEFAULT_PAGE_NUMBER_QUERY, Itoa(lastPage))
      last == Link(baseURL, q2)
      q3 == IF request.Number >= 1
            THEN ValuesSet(q2, DEFAULT_PAGE_NUMBER_QUERY, Itoa(request.Number - 1))
            ELSE q2
      prev == IF request.Number >= 1 THEN Link(baseURL, q3) ELSE Nil
      q4 == IF request.Number < lastPage
            THEN ValuesSet(q3, DEFAULT_PAGE_NUMBER_QUERY, Itoa(request.Number + 1))
            ELSE q3
      next == IF request.Number < lastPage THEN Link(baseURL, q4) ELSE Nil
  IN  [Meta |-> [CurrentPage |-> request.Number, PerPage |-> request.Size,
                 From |-> request.From, To |-> request.To],
       Links |-> [First |-> first, Last |-> last, Next |-> next, Prev |-> prev]]

GeneratePaginationLinks_pagination_go(cc, req, lengthModel) ==
  LET request == InitPagiantion(req, lengthModel)
      baseURL == cc.Scheme \o "://" \o cc.Host \o cc.Path
      q0 == ValuesSet(<<>>, DEFAULT_PAGE_SIZE_QUERY, Itoa(request.Size))
      q1 == ValuesSet(q0, DEFAULT_PAGE_NUMBER_QUERY, Itoa(DEFAULT_PAGE_NUMBER))
      first == Link(baseURL, q1)
      lastPage == GoDiv(lengthModel + request.Size - 1, request.Size)
      q2 == ValuesSet(q1, DEFAULT_PAGE_NUMBER_QUERY, Itoa(lastPage))
      last == Link(baseURL, q2)
      q3 == IF request.Number > 1
            THEN ValuesSet(q2, DEFAULT_PAGE_NUMBER_QUERY, Itoa(request.Number - 1))
            ELSE q2
      prev == IF request.Number > 1 THEN Link(baseURL, q3) ELSE Nil
      q4 == IF request.Number < lastPage
            THEN ValuesSet(q3, DEFAULT_PAGE_NUMBER_QUERY, Itoa(request.Number + 1))
            ELSE q3
      next == IF request.Number < lastPage THEN Link(baseURL, q4) ELSE Nil
  IN  [Meta |-> [CurrentPage |-> request.Number, PerPage |-> request.Size,
                 From |-> request.From, To |-> request.To],
       Links |-> [First |-> first, Last |-> last, Next |-> next, Prev |-> prev]]

\* ------------------------------------------------------------- part_004
\* InitPagination with the defaults applied to 0 only.
InitPagination_zeroOnly(req, lengthModel) ==
  LET size == IF req.Size = 0 THEN DEFAULT_PAGE_SIZE ELSE req.Size
      number == IF req.Number = 0 THEN DEFAULT_PAGE_NUMBER ELSE req.Number
      offset == (number - 1) * size
      from0 == offset + 1
      to0 == offset + size
      from == IF from0 > lengthModel THEN lengthModel ELSE from0
      to == IF to0 > lengthModel THEN lengthModel ELSE to0
  IN  [Size |-> size, Number |-> number, Offset |-> offset,
       From |-> from, To |-> to]

\* InitPagination without the clamp of from.
InitPagination_noClampFrom(req, lengthModel) ==
  LET size == IF req.Size <= 0 THEN DEFAULT_PAGE_SIZE ELSE req.Size
      number == IF req.Number <= 0 THEN DEFAULT_PAGE_NUMBER ELSE req.Number
      offset == (number - 1) * size
      from == offset + 1
      to0 == offset + size
      to == IF to0 > lengthModel THEN lengthModel ELSE to0
  IN  [Size |-> size, Number |-> number, Offset |-> offset,
       From |-> from, To |-> to]

\* InitPagination with from off by one (from := offset).
InitPagination_fromOffset(req, lengthModel) ==
  LET size == IF req.Size <= 0 THEN DEFAULT_PAGE_SIZE ELSE req.Size
      number == IF req.Number <= 0 THEN DEFAULT_PAGE_NUMBER ELSE req.Number
      offset == (number - 1) * size
      from0 == offset
      to0 == offset + size
      from == IF from0 > lengthModel THEN lengthModel ELSE from0
      to == IF to0 > lengthModel THEN lengthModel ELSE to0
  IN  [Size |-> size, Number |-> number, Offset |-> offset,
       From |-> from, To |-> to]

\* InitPagination without the clamp of to.
InitPagination_noClampTo(req, lengthModel) ==
  LET size == IF req.Size <= 0 THEN DEFAULT_PAGE_SIZE ELSE req.Size
      number == IF req.Number <= 0 THEN DEFAULT_PAGE_NUMBER ELSE req.Number
      offset == (number - 1) * size
      from0 == offset + 1
      to0 == offset + size
      from == IF from0 > lengthModel THEN lengthModel ELSE from0
      to == to0
  IN  [Size |-> size, Number |-> number, Offset |-> offset,
       From |-> from, To |-> to]

InitPagination(req, lengthModel) ==
  LET size == IF req.Size <= 0 THEN DEFAULT_PAGE_SIZE ELSE req.Size
      number == IF req.Number <= 0 THEN DEFAULT_PAGE_NUMBER ELSE req.Number
      offset == (number - 1) * size
      from0 == offset + 1
      to0 == offset + size
      from == IF from0 > lengthModel THEN lengthModel ELSE from0
      to == IF to0 > lengthModel THEN lengthModel ELSE to0
  IN  [Size |-> size, Number |-> number, Offset |-> offset,
       From |-> from, To |-> to]

\* GeneratePaginationLinks with next also on the last page (<= for <).
GeneratePaginationLinks_nextOnLastPage(cc, req, lengthModel) ==
  LET request == InitPagination(req, lengthModel)
      lastPage == GoDiv(lengthModel + request.Size - 1, request.Size)
      q0 == ValuesSet(cc.query, "page[size]", Itoa(request.Size))
      baseURL == cc.Scheme \o "://" \o cc.Host \o cc.Path
      q1 == ValuesSet(q0, "page[number]", Itoa(1))
      first == Link(baseURL, q1)
      q2 == ValuesSet(q1, "page[number]", Itoa(lastPage))
      last == Link(baseURL, q2)
      q3 == IF request.Number > 1
            THEN ValuesSet(q2, "page[number]", Itoa(request.Number - 1))
            ELSE q2
      prev == IF request.Number > 1 THEN Link(baseURL, q3) ELSE Nil
      q4 == IF request.Number <= lastPage
            THEN ValuesSet(q3, "page[number]", Itoa(request.Number + 1))
            ELSE q3
      next == IF request.Number <= lastPage THEN Link(baseURL, q4) ELSE Nil
  IN  [Meta |-> [CurrentPage |-> request.Number, PerPage |-> request.Size,
                 From |-> request.From, To |-> request.To,
                 Total |-> lengthModel, LastPage |-> lastPage],
       Links |-> [First |-> first, Last |-> last, Next |-> next, Prev |-> prev]]

\* GeneratePaginationLinks that builds its links from empty url.Values.
GeneratePaginationLinks_freshValues(cc, req, lengthModel) ==
  LET request == InitPagination(req, lengthModel)
      lastPage == GoDiv(lengthModel + request.Size - 1, request.Size)
      q0 == ValuesSet(<<>>, "page[size]", Itoa(request.Size))
      baseURL == cc.Scheme \o "://" \o cc.Host \o cc.Path
      q1 == ValuesSet(q0, "page[number]", Itoa(1))
      first == Link(baseURL, q1)
      q2 == ValuesSet(q1, "page[number]", Itoa(lastPage))
      last == Link(baseURL, q2)
      q3 == IF request.Number > 1
            THEN ValuesSet(q2, "page[number]", Itoa(request.Number - 1))
            ELSE q2
      prev == IF request.Number > 1 THEN Link(baseURL, q3) ELSE Nil
      q4 == IF request.Number < lastPage
            THEN ValuesSet(q3, "page[number]", Itoa(request.Number + 1))
            ELSE q3
      next == IF request.Number < lastPage THEN Link(baseURL, q4) ELSE Nil
  IN  [Meta |-> [CurrentPage |-> request.Number, PerPage |-> request.Size,
                 From |-> request.From, To |-> request.To,
                 Total |-> lengthModel, LastPage |-> lastPage],
       Links |-> [First |-> first, Last |-> last, Next |-> next, Prev |-> prev]]

GeneratePaginationLinks(cc, req, lengthModel) ==
  LET request == InitPagination(req, lengthModel)
      lastPage == GoDiv(lengthModel + request.Size - 1, request.Size)
      q0 == ValuesSet(cc.query, "page[size]", Itoa(request.Size))
      baseURL == cc.Scheme \o "://" \o cc.Host \o cc.Path
      q1 == ValuesSet(q0, "page[number]", Itoa(1))
      first == Link(baseURL, q1)
      q2 == ValuesSet(q1, "page[number]", Itoa(lastPage))
      last == Link(baseURL, q2)
      q3 == IF request.Number > 1
            THEN ValuesSet(q2, "page[number]", Itoa(request.Number - 1))
            ELSE q2
      prev == IF request.Number > 1 THEN Link(baseURL, q3) ELSE Nil
      q4 == IF request.Number < lastPage
            THEN ValuesSet(q3, "page[number]", Itoa(request.Number + 1))
            ELSE q3
      next == IF request.Number < lastPage THEN Link(baseURL, q4) ELSE Nil
  IN  [Meta |-> [CurrentPage |-> request.Number, PerPage |-> request.Size,
                 From |-> request.From, To |-> request.To,
                 Total |-> lengthModel, LastPage |-> lastPage],
       Links |-> [First |-> first, Last |-> last, Next |-> next, Prev |-> prev]]

\* ------------------------------------------------------------- part_003
\* New: the binding, then the defaults.
NewReq(req) ==
  [Size |-> IF req.Size <= 0 THEN DefaultPageSize ELSE req.Size,
   Number |-> IF req.Number <= 0 THEN DefaultPageNumber ELSE req.Number]

SetBaseURL(cc) ==
  LET scheme == IF cc.TLS THEN "https" ELSE "http"
  IN  scheme \o "://" \o cc.Host \o cc.Path

\* GenerateResponse with the last page rounded down.
GenerateResponse_floorLastPage(pp, cc) ==
  LET baseURL == SetBaseURL(cc)
      q0 == ValuesDel(ValuesDel(cc.query, PageSizeQuery), PageNumberQuery)
      offset == (pp.Req.Number - 1) * pp.Req.Size
      from == offset + 1
      to0 == offset + pp.Req.Size
      to == IF to0 > pp.TotalItems THEN pp.TotalItems ELSE to0
      q1 == ValuesSet(ValuesSet(q0, PageSizeQuery, Itoa(pp.Req.Size)),
                      PageNumberQuery, Itoa(DefaultPageNumber))
      first == Link(baseURL, q1)
      lastPage == GoDiv(pp.TotalItems, pp.Req.Size)
      q2 == ValuesSet(q1, PageNumberQuery, Itoa(lastPage))
      last == Link(baseURL, q2)
      q3 == IF pp.Req.Number > 1
            THEN ValuesSet(q2, PageNumberQuery, Itoa(pp.Req.Number - 1))
            ELSE q2
      prev == IF pp.Req.Number > 1 THEN Link(baseURL, q3) ELSE Nil
      q4 == IF pp.Req.Number < lastPage
            THEN ValuesSet(q3, PageNumberQuery, Itoa(pp.Req.Number + 1))
            ELSE q3
      next == IF pp.Req.Number < lastPage THEN Link(baseURL, q4) ELSE Nil
  IN  [Meta |-> [CurrentPage |-> pp.Req.Number, PerPage |-> pp.Req.Size,
                 From |-> from, To |-> to],
       Links |-> [First |-> first, Last |-> last, Next |-> next, Prev |-> prev]]

\* GenerateResponse that does not put page[size] back into the links.
GenerateResponse_noPageSize(pp, cc) ==
  LET baseURL == SetBaseURL(cc)
      q0 == ValuesDel(ValuesDel(cc.query, PageSizeQuery), PageNumberQuery)
      offset == (pp.Req.Number - 1) * pp.Req.Size
      from == offset + 1
      to0 == offset + pp.Req.Size
      to == IF to0 > pp.TotalItems THEN pp.TotalItems ELSE to0
      q1 == ValuesSet(q0, PageNumberQuery, Itoa(DefaultPageNumber))
      first == Link(baseURL, q1)
      lastPage == GoDiv(pp.TotalItems + pp.Req.Size - 1, pp.Req.Size)
      q2 == ValuesSet(q1, PageNumberQuery, Itoa(lastPage))
      last == Link(baseURL, q2)
      q3 == IF pp.Req.Number > 1
            THEN ValuesSet(q2, PageNumberQuery, Itoa(pp.Req.Number - 1))
            ELSE q2
      prev == IF pp.Req.Number > 1 THEN Link(baseURL, q3) ELSE Nil
      q4 == IF pp.Req.Number < lastPage
            THEN ValuesSet(q3, PageNumberQuery, Itoa(pp.Req.Number + 1))
            ELSE q3
      next == IF pp.Req.Number < lastPage THEN Link(baseURL, q4) ELSE Nil
  IN  [Meta |-> [CurrentPage |-> pp.Req.Number, PerPage |-> pp.Req.Size,
                 From |-> from, To |-> to],
       Links |-> [First |-> first, Last |-> last, Next |-> next, Prev |-> prev]]

GenerateResponse(pp, cc) ==
  LET baseURL == SetBaseURL(cc)
      q0 == ValuesDel(ValuesDel(cc.query, PageSizeQuery), PageNumberQuery)
      offset == (pp.Req.Number - 1) * pp.Req.Size
      from == offset + 1
      to0 == offset + pp.Req.Size
      to == IF to0 > pp.TotalItems THEN pp.TotalItems ELSE to0
      q1 == ValuesSet(ValuesSet(q0, PageSizeQuery, Itoa(pp.Req.Size)),
                      PageNumberQuery, Itoa(DefaultPageNumber))
      first == Link(baseURL, q1)
      lastPage == GoDiv(pp.TotalItems + pp.Req.Size - 1, pp.Req.Size)
      q2 == ValuesSet(q1, PageNumberQuery, Itoa(lastPage))
      last == Link(baseURL, q2)
      q3 == IF pp.Req.Number > 1
            THEN ValuesSet(q2, PageNumberQuery, Itoa(pp.Req.Number - 1))
            ELSE q2
      prev == IF pp.Req.Number > 1 THEN Link(baseURL, q3) ELSE Nil
      q4 == IF pp.Req.Number < lastPage
            THEN ValuesSet(q3, PageNumberQuery, Itoa(pp.Req.Number + 1))
            ELSE q3
      next == IF pp.Req.Number < lastPage THEN Link(baseURL, q4) ELSE Nil
  IN  [Meta |-> [CurrentPage |-> pp.Req.Number, PerPage |-> pp.Req.Size,
                 From |-> from, To |-> to],
       Links |-> [First |-> first, Last |-> last, Next |-> next, Prev |-> prev]]

\* The rows a query with Offset(offset).Limit(limit) finds in a table of
\* total rows.
Find(total, offset, limit) ==
  LET hi == IF offset + limit > total THEN total ELSE offset + limit
  IN  [i \in 1..(IF hi > offset THEN hi - offset ELSE 0) |-> offset + i]

\* A *gorm.DB is its statement: the clauses chained onto it.  The handle
\* gorm.Open returns starts a fresh statement for every chain, so chaining
\* gives a new handle and leaves the receiver as it was.
RootDB == [Statement |-> <<>>]

AddClause(h, name, n) ==
  [Statement |-> [k \in (DOMAIN h.Statement) \cup {name} |->
                    IF k = name THEN n ELSE h.Statement[k]]]

\* tx.Find(&rows) on a table of total rows
DBFind(total, h) ==
  LET offset == IF "OFFSET" \in DOMAIN h.Statement
                THEN h.Statement["OFFSET"] ELSE 0
      limit == IF "LIMIT" \in DOMAIN h.Statement
               THEN h.Statement["LIMIT"] ELSE total
  IN  Find(total, offset, limit)

\* tx.Model(model).Count(&n): the count is a single row, which a positive
\* OFFSET on the statement skips.
DBCount(total, h) ==
  IF "OFFSET" \in DOMAIN h.Statement /\ h.Statement["OFFSET"] > 0
  THEN 0 ELSE total


\* ----------------------------------------------------------- helpers.go
\* A Go string that is put together from parts is the sequence of its
\* parts; an error value carries its text, which Error() gives back.
\* What a helper returns carries, next to its results, the calls it made,
\* in order.
Error(err) == err.msg

ZeroPaginationResponse == [Page |-> 0, PerPage |-> 0, MaxPage |-> 0, Total |-> 0]

\* BindPagination(ctx): page and per_page of the query, 1 and 10 standing
\* in for values <= 0, per_page at most 100.
BindPagination(cc) ==
  LET page == BindInt(cc.query, "page").n
      perPage == BindInt(cc.query, "per_page").n
  IN  [Page |-> IF page <= 0 THEN 1 ELSE page,
       PerPage |-> IF perPage <= 0 THEN 10
                   ELSE IF perPage > MaxPerPage THEN MaxPerPage ELSE perPage]

NewSimpleQueryBuilder(tableName) ==
  [TableName |-> tableName, SearchFields |-> <<>>, Filters |-> <<>>]

WithSearchFields(builder, searchFields) ==
  [builder EXCEPT !.SearchFields = searchFields]

WithFilters(builder, filterFunc) ==
  [builder EXCEPT !.Filters = <<filterFunc>>]

\* PaginatedQuery: the count, then the fetch of the page; the first error
\* of the data store aborts it.
PaginatedQuery(dbh, builder, pagination, includes) ==
  IF dbh.err # Nil
  THEN [data |-> Nil, total |-> 0, err |-> dbh.err]
  ELSE [data |-> Find(dbh.rows, (pagination.Page - 1) * pagination.PerPage,
                      pagination.PerPage),
        total |-> dbh.rows, err |-> Nil]

\* CalculatePagination: page, per_page, max_page and total of the response;
\* max_page is ceil(total / per_page) and at least 1.
CalculatePagination(pagination, total) ==
  LET pages == (total + pagination.PerPage - 1) \div pagination.PerPage
  IN  [Page |-> pagination.Page, PerPage |-> pagination.PerPage,
       MaxPage |-> IF pages < 1 THEN 1 ELSE pages, Total |-> total]

NewPaginatedResponse(code, message, data, pagination) ==
  [Code |-> code, Message |-> message, Data |-> data,
   Pagination |-> pagination]

\* PaginateModel that builds the pagination metadata also when the query failed
PaginateModel_computeOnError(dbh, ctx, tableName, searchFields) ==
  LET pagination == BindPagination(ctx)
      builder == WithSearchFields(NewSimpleQueryBuilder(tableName), searchFields)
      q == PaginatedQuery(dbh, builder, pagination, <<>>)
  IN  IF q.err # Nil
      THEN [data |-> Nil,
            pagination |-> CalculatePagination(pagination, q.total),
            err |-> q.err,
            calls |-> <<"BindPagination", "PaginatedQuery", "CalculatePagination">>]
      ELSE [data |-> q.data,
            pagination |-> CalculatePagination(pagination, q.total),
            err |-> Nil,
            calls |-> <<"BindPagination", "PaginatedQuery", "CalculatePagination">>]

PaginateModel(dbh, ctx, tableName, searchFields) ==
  LET pagination == BindPagination(ctx)
      builder == WithSearchFields(NewSimpleQueryBuilder(tableName), searchFields)
      q == PaginatedQuery(dbh, builder, pagination, <<>>)
  IN  IF q.err # Nil
      THEN [data |-> Nil, pagination |-> ZeroPaginationResponse, err |-> q.err,
            calls |-> <<"BindPagination", "PaginatedQuery">>]
      ELSE [data |-> q.data,
            pagination |-> CalculatePagination(pagination, q.total),
            err |-> Nil,
            calls |-> <<"BindPagination", "PaginatedQuery", "CalculatePagination">>]

PaginateWithIncludes(dbh, ctx, tableName, searchFields, includes) ==
  LET pagination == BindPagination(ctx)
      builder == WithSearchFields(NewSimpleQueryBuilder(tableName), searchFields)
      q == PaginatedQuery(dbh, builder, pagination, includes)
  IN  IF q.err # Nil
      THEN [data |-> Nil, pagination |-> ZeroPaginationResponse, err |-> q.err,
            calls |-> <<"BindPagination", "PaginatedQuery">>]
      ELSE [data |-> q.data,
            pagination |-> CalculatePagination(pagination, q.total),
            err |-> Nil,
            calls |-> <<"BindPagination", "PaginatedQuery", "CalculatePagination">>]

PaginateWithFilter(dbh, ctx, tableName, searchFields, filterFunc) ==
  LET pagination == BindPagination(ctx)
      builder == WithFilters(
                   WithSearchFields(NewSimpleQueryBuilder(tableName), searchFields),
                   filterFunc)
      q == PaginatedQuery(dbh, builder, pagination, <<>>)
  IN  IF q.err # Nil
      THEN [data |-> Nil, pagination |-> ZeroPaginationResponse, err |-> q.err,
            calls |-> <<"BindPagination", "PaginatedQuery">>]
      ELSE [data |-> q.data,
            pagination |-> CalculatePagination(pagination, q.total),
            err |-> Nil,
            calls |-> <<"BindPagination", "PaginatedQuery", "CalculatePagination">>]

QuickPaginate(dbh, ctx, tableName) ==
  LET pagination == BindPagination(ctx)
      builder == NewSimpleQueryBuilder(tableName)
      q == PaginatedQuery(dbh, builder, pagination, <<>>)
  IN  IF q.err # Nil
      THEN [data |-> Nil, pagination |-> ZeroPaginationResponse, err |-> q.err,
            calls |-> <<"BindPagination", "PaginatedQuery">>]
      ELSE [data |-> q.data,
            pagination |-> CalculatePagination(pagination, q.total),
            err |-> Nil,
            calls |-> <<"BindPagination", "PaginatedQuery", "CalculatePagination">>]

PaginatedAPIResponse(dbh, ctx, tableName, searchFields, message) ==
  LET r == PaginateModel(dbh, ctx, tableName, searchFields)
  IN  IF r.err # Nil
      THEN NewPaginatedResponse(500, <<"Internal Server Error: ">> \o Error(r.err),
                                Nil, ZeroPaginationResponse)
      ELSE NewPaginatedResponse(200, message, r.data, r.pagination)

PaginatedAPIResponseWithIncludes(dbh, ctx, tableName, searchFields, includes, message) ==
  LET r == PaginateWithIncludes(dbh, ctx, tableName, searchFields, includes)
  IN  IF r.err # Nil
      THEN NewPaginatedResponse(500, <<"Internal Server Error: ">> \o Error(r.err),
                                Nil, ZeroPaginationResponse)
      ELSE NewPaginatedResponse(200, message, r.data, r.pagination)


\* ------------------------------------------------------ README.md filters
\* A filter is its type and its Includes; a Go map[string]bool is a
\* function on its keys, and the lookup of a missing key gives false.
MapGet(m, k) == k \in DOMAIN m /\ m[k]

GetAllowedIncludes(ff) ==
  IF ff.type = "UserFilter"
  THEN [k \in {"Profile", "Posts", "Orders"} |-> TRUE]
  ELSE [k \in {"Profile", "Posts", "Profile.Address", "Posts.Comments"} |-> TRUE]

\* the first segment of a dotted path
RootSegment(include) ==
  CASE include = "Profile.Address" -> "Profile"
    [] include = "Posts.Comments" -> "Posts"
    [] OTHER -> include

\* Validate, but a dotted path passes when its first segment is allowed
Validate_parentImplies(ff) ==
  LET allowedIncludes == GetAllowedIncludes(ff)
      validIncludes == SelectSeq(ff.Includes,
                         LAMBDA include : MapGet(allowedIncludes, RootSegment(include)))
  IN  [ff EXCEPT !.Includes = validIncludes]

Validate(ff) ==
  LET allowedIncludes == GetAllowedIncludes(ff)
      validIncludes == SelectSeq(ff.Includes,
                         LAMBDA include : MapGet(allowedIncludes, include))
  IN  [ff EXCEPT !.Includes = validIncludes]



\* ------------------------------------------------------- examples filters
\* query.Where(sql, arg): one more condition on the statement
Where(query, sql, arg) ==
  LET conds == IF "WHERE" \in DOMAIN query.Statement
               THEN query.Statement["WHERE"] ELSE <<>>
  IN  AddClause(query, "WHERE", Append(conds, [sql |-> sql, arg |-> arg]))

\* time.Time.IsZero
IsZero(t) == t.sec = 0 /\ t.nsec = 0

ProvinceFilter_ApplyFilters(ff, query) ==
  LET q1 == IF ff.ID > 0 THEN Where(query, "id = ?", ff.ID) ELSE query
      q2 == IF ff.Name # ""
            THEN Where(q1, "name LIKE ?", <<"%", ff.Name, "%">>) ELSE q1
      q3 == IF ff.Code # "" THEN Where(q2, "code = ?", ff.Code) ELSE q2
  IN  q3

\* AthleteFilter.ApplyFilters that also filters on an ID of 0
AthleteFilter_ApplyFilters_zeroID(ff, query) ==
  LET q1 == IF ff.ID >= 0 THEN Where(query, "id = ?", ff.ID) ELSE query
      q2 == IF ff.ProvinceID > 0
            THEN Where(q1, "province_id = ?", ff.ProvinceID) ELSE q1
      q3 == IF ff.SportID > 0 THEN Where(q2, "sport_id = ?", ff.SportID) ELSE q2
      q4 == IF ff.EventID > 0 THEN Where(q3, "event_id = ?", ff.EventID) ELSE q3
      q5 == IF ff.MinAge > 0 THEN Where(q4, "age >= ?", ff.MinAge) ELSE q4
      q6 == IF ff.MaxAge > 0 THEN Where(q5, "age <= ?", ff.MaxAge) ELSE q5
  IN  q6

AthleteFilter_ApplyFilters(ff, query) ==
  LET q1 == IF ff.ID > 0 THEN Where(query, "id = ?", ff.ID) ELSE query
      q2 == IF ff.ProvinceID > 0
            THEN Where(q1, "province_id = ?", ff.ProvinceID) ELSE q1
      q3 == IF ff.SportID > 0 THEN Where(q2, "sport_id = ?", ff.SportID) ELSE q2
      q4 == IF ff.EventID > 0 THEN Where(q3, "event_id = ?", ff.EventID) ELSE q3
      q5 == IF ff.MinAge > 0 THEN Where(q4, "age >= ?", ff.MinAge) ELSE q4
      q6 == IF ff.MaxAge > 0 THEN Where(q5, "age <= ?", ff.MaxAge) ELSE q5
  IN  q6

EventFilter_ApplyFilters(ff, query) ==
  LET q1 == IF ff.ID > 0 THEN Where(query, "id = ?", ff.ID) ELSE query
      q2 == IF ff.Name # ""
            THEN Where(q1, "name LIKE ?", <<"%", ff.Name, "%">>) ELSE q1
      q3 == IF ff.Year > 0
            THEN Where(q2, "YEAR(start_date) = ?", ff.Year) ELSE q2
      q4 == IF ff.SportID > 0 THEN Where(q3, "sport_id = ?", ff.SportID) ELSE q3
      q5 == IF ~IsZero(ff.StartDate)
            THEN Where(q4, "start_date >= ?", ff.StartDate) ELSE q4
      q6 == IF ~IsZero(ff.EndDate)
            THEN Where(q5, "end_date <= ?", ff.EndDate) ELSE q5
  IN  q6

\* f.ApplyFilters(query), by the type of the filter
ApplyFilters(ff, query) ==
  CASE ff.type = "ProvinceFilter" -> ProvinceFilter_ApplyFilters(ff, query)
    [] ff.type = "AthleteFilter" -> AthleteFilter_ApplyFilters(ff, query)
    [] ff.type = "EventFilter" -> EventFilter_ApplyFilters(ff, query)

\* ------------------------------------------- field validator, query builder
\* A field name is the sequence of its characters.
Letters == {"a"}
Digits == {"1"}

\* one scan over the candidate: every character is a letter, a digit, an
\* underscore or a dot, and dots counts the dots that were seen
RECURSIVE ScanIdentifier(_, _, _)
\* ScanIdentifier without the limit of one dot
RECURSIVE ScanIdentifier_anyDots(_, _, _)
ScanIdentifier_anyDots(candidate, i, dots) ==
  IF i > Len(candidate) THEN TRUE
  ELSE IF candidate[i] = "." THEN ScanIdentifier_anyDots(candidate, i + 1, dots + 1)
  ELSE IF candidate[i] \in Letters \cup Digits \cup {"_"}
       THEN ScanIdentifier_anyDots(candidate, i + 1, dots)
       ELSE FALSE

ScanIdentifier(candidate, i, dots) ==
  IF i > Len(candidate) THEN dots <= 1
  ELSE IF candidate[i] = "." THEN ScanIdentifier(candidate, i + 1, dots + 1)
  ELSE IF candidate[i] \in Letters \cup Digits \cup {"_"}
       THEN ScanIdentifier(candidate, i + 1, dots)
       ELSE FALSE

isValidIdentifier(candidate) ==
  Len(candidate) > 0 /\ ScanIdentifier(candidate, 1, 0)

DefaultSort == <<"i", "d", " ", "a", "s", "c">>

\* The operations the builder emits for one field name in one role: the
\* sort falls back to the default sort, a search field or an include that
\* fails the validator is left out; no role raises an error.
BuildQuery(role, candidate) ==
  LET ok == isValidIdentifier(candidate)
      ops == CASE role = "sort" ->
                    IF ok THEN <<[op |-> "sort-by", field |-> candidate]>>
                    ELSE <<[op |-> "sort-by", field |-> DefaultSort]>>
               [] role = "search" ->
                    IF ok THEN <<[op |-> "pattern", field |-> candidate]>>
                    ELSE <<>>
               [] OTHER ->
                    IF ok THEN <<[op |-> "eager-load", field |-> candidate]>>
                    ELSE <<>>
  IN  [ops |-> ops, err |-> Nil]

\* ------------------------------------------------------------- requests
SizeParams == {Itoa(n) : n \in (0 - 1)..MaxSize} \cup {"", Itoa(MaxPerPage + 1)}
NumberParams == {Itoa(n) : n \in (0 - 1)..MaxNumber} \cup {"", "abc"}
ExtraParams == {<<>>, [search |-> <<"go">>]}

QueryOf(s, n, extra) ==
  LET q1 == IF s = "" THEN extra ELSE ValuesSet(extra, "page[size]", s)
  IN  IF n = "" THEN q1 ELSE ValuesSet(q1, "page[number]", n)

Requests ==
  {[TLS |-> FALSE, Scheme |-> "", Host |-> "example.com", Path |-> "/users",
    query |-> QueryOf(s, n, e)] :
      s \in SizeParams, n \in NumberParams, e \in ExtraParams}

\* the requests of the flat convention (page, per_page)
FlatQueryOf(pg, pp, extra) ==
  LET q1 == IF pg = "" THEN extra ELSE ValuesSet(extra, "page", pg)
  IN  IF pp = "" THEN q1 ELSE ValuesSet(q1, "per_page", pp)

FlatRequests ==
  {[TLS |-> FALSE, Scheme |-> "", Host |-> "example.com", Path |-> "/users",
    query |-> FlatQueryOf(pg, pp, e)] :
      pg \in {"", "1", "2"}, pp \in {"", Itoa(MaxSize)}, e \in ExtraParams}

\* the filters a request binds: up to MaxIncludes requested include names
IncludeNames == {"Profile", "Posts", "Profile.Address", "Unknown"}

IncludeLists ==
  UNION {[1..n -> IncludeNames] : n \in 0..MaxIncludes}

Filters ==
  {[type |-> t, Includes |-> incs] :
      t \in {"UserFilter", "UserProfileFilter"}, incs \in IncludeLists}

\* the example filters a request binds
FieldInts == (0 - 1)..MaxFieldValue
FieldStrings == {"", "x"}
Times == {[sec |-> 0, nsec |-> 0], [sec |-> 1, nsec |-> 0]}

ProvinceFilters ==
  {[type |-> "ProvinceFilter", ID |-> id, Name |-> name, Code |-> code] :
      id \in FieldInts, name \in FieldStrings, code \in FieldStrings}

AthleteFilters ==
  {[type |-> "AthleteFilter", ID |-> id, ProvinceID |-> pid, SportID |-> sid,
    EventID |-> eid, MinAge |-> lo, MaxAge |-> hi, IsActive |-> act] :
      id \in FieldInts, pid \in FieldInts, sid \in FieldInts,
      eid \in FieldInts, lo \in FieldInts, hi \in FieldInts,
      act \in BOOLEAN}

EventFilters ==
  {[type |-> "EventFilter", ID |-> id, Name |-> name, Location |-> loc,
    IsActive |-> act, Year |-> year, SportID |-> sid, StartDate |-> sd,
    EndDate |-> ed] :
      id \in FieldInts, name \in FieldStrings, loc \in FieldStrings,
      act \in BOOLEAN, year \in FieldInts, sid \in FieldInts,
      sd \in Times, ed \in Times}

ExampleFilters == ProvinceFilters \cup AthleteFilters \cup EventFilters

\* the candidate field names a request supplies, as their characters
Chars == {"a", "1", "_", ".", " ", ";", "'"}

Candidates ==
  {[type |-> "Candidate", name |-> n] :
      n \in UNION {[1..k -> Chars] : k \in 0..MaxNameLen}}

\* what a field name is used for
Roles == {"sort", "search", "include"}

\* what the data store answers when it fails
StoreErrors == {[msg |-> <<"no such table: users">>]}
Messages == {<<"Users retrieved successfully">>}

\* ---------------------------------------------------------------- state
\* One behaviour is the handling of one inbound request by one build.
Init ==
  /\ impl \in Impls
  /\ c \in (CASE impl = "helpers.go" -> FlatRequests
             [] impl \in {"README.md", "examples", "builder"} ->
                  {r \in FlatRequests : DOMAIN r.query = {}}
             [] OTHER -> Requests)
  /\ db = 0
  /\ dbErr \in (IF impl = "helpers.go" THEN {Nil} \cup StoreErrors ELSE {Nil})
  /\ p = Nil
  /\ f \in (CASE impl = "README.md" -> Filters
             [] impl = "examples" -> ExampleFilters
             [] impl = "builder" -> Candidates
             [] OTHER -> {Nil})
  /\ queried = FALSE
  /\ ret = [op |-> "none"]
  /\ sharedDB = Nil
  /\ hs = <<>>
  /\ nav = Nil

\* A row is added to the table.
Insert ==
  /\ db < MaxTotal
  /\ db' = db + 1
  /\ UNCHANGED <<impl, c, dbErr, p, f, queried, ret, sharedDB, hs, nav>>

CallInitPagiantion ==
  /\ impl = "pagination.go"
  /\ LET b == ShouldBindQuery(c.query)
     IN  /\ ~b.err
         /\ ret' = [op |-> "InitPagiantion", req |-> b.req, total |-> db,
                    val |-> InitPagiantion(b.req, db)]
  /\ UNCHANGED <<impl, c, db, dbErr, p, f, queried, sharedDB, hs, nav>>

CallGeneratePaginationLinks_pagination_go ==
  /\ impl = "pagination.go"
  /\ LET b == ShouldBindQuery(c.query)
     IN  /\ ~b.err
         /\ ret' = [op |-> "GeneratePaginationLinks", req |-> b.req,
                    total |-> db,
                    val |-> GeneratePaginationLinks_pagination_go(c, b.req, db)]
  /\ UNCHANGED <<impl, c, db, dbErr, p, f, queried, sharedDB, hs, nav>>

CallInitPagination ==
  /\ impl = "part_004"
  /\ LET b == ShouldBindQuery(c.query)
     IN  /\ ~b.err
         /\ ret' = [op |-> "InitPagination", req |-> b.req, total |-> db,
                    val |-> InitPagination(b.req, db)]
  /\ UNCHANGED <<impl, c, db, dbErr, p, f, queried, sharedDB, hs, nav>>

CallGeneratePaginationLinks ==
  /\ impl = "part_004"
  /\ LET b == ShouldBindQuery(c.query)
     IN  /\ ~b.err
         /\ ret' = [op |-> "GeneratePaginationLinks", req |-> b.req,
                    total |-> db,
                    val |-> GeneratePaginationLinks(c, b.req, db)]
  /\ UNCHANGED <<impl, c, db, dbErr, p, f, queried, sharedDB, hs, nav>>

\* New that goes on with the zero request when the binding fails.
New_ignoreBindError ==
  /\ impl = "part_003"
  /\ p = Nil
  /\ LET b == ShouldBindQuery(c.query)
     IN  IF b.err
         THEN /\ p' = [DB |-> RootDB, Req |-> NewReq(b.req), TotalItems |-> 0]
              /\ ret' = [op |-> "New", err |-> FALSE, req |-> b.req]
         ELSE /\ p' = [DB |-> RootDB, Req |-> NewReq(b.req), TotalItems |-> 0]
              /\ ret' = [op |-> "New", err |-> FALSE, req |-> b.req]
  /\ UNCHANGED <<impl, c, db, dbErr, f, queried, sharedDB, hs, nav>>

New ==
  /\ impl = "part_003"
  /\ p = Nil
  /\ LET b == ShouldBindQuery(c.query)
     IN  IF b.err
         THEN /\ p' = Nil
              /\ ret' = [op |-> "New", err |-> TRUE]
         ELSE /\ p' = [DB |-> RootDB, Req |-> NewReq(b.req), TotalItems |-> 0]
              /\ ret' = [op |-> "New", err |-> FALSE, req |-> b.req]
  /\ UNCHANGED <<impl, c, db, dbErr, f, queried, sharedDB, hs, nav>>

\* Query that chains Offset and Limit onto p.DB itself.
Query_keepsStatement ==
  /\ impl = "part_003"
  /\ p # Nil
  /\ LET offset == (p.Req.Number - 1) * p.Req.Size
         tx == AddClause(AddClause(p.DB, "OFFSET", offset), "LIMIT", p.Req.Size)
     IN  ret' = [op |-> "Query", offset |-> offset, limit |-> p.Req.Size,
                 total |-> db, tx |-> tx, rows |-> DBFind(db, tx)]
  /\ queried' = TRUE
  /\ p' = [p EXCEPT !.DB =
             AddClause(AddClause(p.DB, "OFFSET", (p.Req.Number - 1) * p.Req.Size),
                       "LIMIT", p.Req.Size)]
  /\ UNCHANGED <<impl, c, db, dbErr, f, sharedDB, hs, nav>>

\* Query with the offset one page too far (Number * Size).
Query_numberTimesSize ==
  /\ impl = "part_003"
  /\ p # Nil
  /\ LET offset == p.Req.Number * p.Req.Size
         tx == AddClause(AddClause(p.DB, "OFFSET", offset), "LIMIT", p.Req.Size)
     IN  ret' = [op |-> "Query", offset |-> offset, limit |-> p.Req.Size,
                 total |-> db, tx |-> tx, rows |-> DBFind(db, tx)]
  /\ queried' = TRUE
  /\ UNCHANGED <<impl, c, db, dbErr, p, f, sharedDB, hs, nav>>

Query ==
  /\ impl = "part_003"
  /\ p # Nil
  /\ LET offset == (p.Req.Number - 1) * p.Req.Size
         tx == AddClause(AddClause(p.DB, "OFFSET", offset), "LIMIT", p.Req.Size)
     IN  ret' = [op |-> "Query", offset |-> offset, limit |-> p.Req.Size,
                 total |-> db, tx |-> tx, rows |-> DBFind(db, tx)]
  /\ queried' = TRUE
  /\ UNCHANGED <<impl, c, db, dbErr, p, f, sharedDB, hs, nav>>

Count ==
  /\ impl = "part_003"
  /\ p # Nil
  /\ p' = [p EXCEPT !.TotalItems = DBCount(db, p.DB)]
  /\ ret' = [op |-> "Count", err |-> FALSE]
  /\ UNCHANGED <<impl, c, db, dbErr, f, queried, sharedDB, hs, nav>>

\* GenerateResponse that deletes the page keys from the query of the request itself.
CallGenerateResponse_editsRequest ==
  /\ impl = "part_003"
  /\ p # Nil
  /\ ret' = [op |-> "GenerateResponse", val |-> GenerateResponse(p, c)]
  /\ c' = [c EXCEPT !.query =
                ValuesDel(ValuesDel(c.query, PageSizeQuery), PageNumberQuery)]
  /\ UNCHANGED <<impl, db, dbErr, p, f, queried, sharedDB, hs, nav>>

CallGenerateResponse ==
  /\ impl = "part_003"
  /\ p # Nil
  /\ ret' = [op |-> "GenerateResponse", val |-> GenerateResponse(p, c)]
  /\ UNCHANGED <<impl, c, db, dbErr, p, f, queried, sharedDB, hs, nav>>

CallPaginatedAPIResponse ==
  /\ impl = "helpers.go"
  /\ \E message \in Messages :
       ret' = [op |-> "PaginatedAPIResponse", message |-> message,
               val |-> PaginatedAPIResponse([rows |-> db, err |-> dbErr], c,
                          "users", <<"name", "email">>, message)]
  /\ UNCHANGED <<impl, c, db, dbErr, p, f, queried, sharedDB, hs, nav>>

CallPaginatedAPIResponseWithIncludes ==
  /\ impl = "helpers.go"
  /\ \E message \in Messages :
       ret' = [op |-> "PaginatedAPIResponseWithIncludes", message |-> message,
               val |-> PaginatedAPIResponseWithIncludes(
                          [rows |-> db, err |-> dbErr], c, "users",
                          <<"name", "email">>, <<"Profile">>, message)]
  /\ UNCHANGED <<impl, c, db, dbErr, p, f, queried, sharedDB, hs, nav>>

CallPaginateModel ==
  /\ impl = "helpers.go"
  /\ ret' = [op |-> "PaginateModel", total |-> db,
             val |-> PaginateModel([rows |-> db, err |-> dbErr], c, "users",
                                   <<"name", "email">>)]
  /\ UNCHANGED <<impl, c, db, dbErr, p, f, queried, sharedDB, hs, nav>>

CallPaginateWithIncludes ==
  /\ impl = "helpers.go"
  /\ ret' = [op |-> "PaginateWithIncludes", total |-> db,
             val |-> PaginateWithIncludes([rows |-> db, err |-> dbErr], c,
                        "users", <<"name", "email">>, <<"Profile">>)]
  /\ UNCHANGED <<impl, c, db, dbErr, p, f, queried, sharedDB, hs, nav>>

CallPaginateWithFilter ==
  /\ impl = "helpers.go"
  /\ ret' = [op |-> "PaginateWithFilter", total |-> db,
             val |-> PaginateWithFilter([rows |-> db, err |-> dbErr], c,
                        "users", <<"name", "email">>, "id > 0")]
  /\ UNCHANGED <<impl, c, db, dbErr, p, f, queried, sharedDB, hs, nav>>

CallQuickPaginate ==
  /\ impl = "helpers.go"
  /\ ret' = [op |-> "QuickPaginate", total |-> db,
             val |-> QuickPaginate([rows |-> db, err |-> dbErr], c, "users")]
  /\ UNCHANGED <<impl, c, db, dbErr, p, f, queried, sharedDB, hs, nav>>

CallValidate ==
  /\ impl = "README.md"
  /\ ret' = [op |-> "Validate", requested |-> f.Includes]
  /\ f' = Validate(f)
  /\ UNCHANGED <<impl, c, db, dbErr, p, queried, sharedDB, hs, nav>>

CallApplyFilters ==
  /\ impl = "examples"
  /\ ret' = [op |-> "ApplyFilters", val |-> ApplyFilters(f, RootDB)]
  /\ UNCHANGED <<impl, c, db, dbErr, p, f, queried, sharedDB, hs, nav>>

CallBuildQuery ==
  /\ impl = "builder"
  /\ \E role \in Roles :
       ret' = [op |-> "BuildQuery", role |-> role, candidate |-> f.name,
               val |-> BuildQuery(role, f.name)]
  /\ UNCHANGED <<impl, c, db, dbErr, p, f, queried, sharedDB, hs, nav>>

Next ==
  \/ Insert
  \/ CallInitPagiantion
  \/ CallGeneratePaginationLinks_pagination_go
  \/ CallInitPagination
  \/ CallGeneratePaginationLinks
  \/ New
  \/ Query
  \/ Count
  \/ CallGenerateResponse
  \/ CallPaginatedAPIResponse
  \/ CallPaginatedAPIResponseWithIncludes
  \/ CallPaginateModel
  \/ CallPaginateWithIncludes
  \/ CallPaginateWithFilter
  \/ CallQuickPaginate
  \/ CallValidate
  \/ CallApplyFilters
  \/ CallBuildQuery

Spec == Init /\ [][Next]_vars


\* ------------------------------------------------- concurrent handlers
\* The handler of the README: New, Query().Find, Count, GenerateResponse,
\* one after the other.  Every handler was given the same *gorm.DB, the
\* one gorm.Open returned; pc is the call a handler makes next.
Handlers == {"h1", "h2"}

HandlerRequests ==
  {[TLS |-> FALSE, Scheme |-> "", Host |-> "example.com", Path |-> "/users",
    query |-> QueryOf(s, n, <<>>)] :
      s \in {Itoa(k) : k \in 1..MaxSize} \cup {""},
      n \in {Itoa(k) : k \in 1..MaxNumber}}

NewHandler(request) ==
  [c |-> request, pc |-> "New", p |-> Nil, rows |-> Nil, fetchedOf |-> 0,
   resp |-> Nil]

InitHandlers(names) ==
  /\ impl = "part_003"
  /\ c = Nil
  /\ dbErr = Nil
  /\ p = Nil
  /\ f = Nil
  /\ queried = FALSE
  /\ ret = [op |-> "none"]
  /\ sharedDB = RootDB
  /\ hs \in [names -> {NewHandler(r) : r \in HandlerRequests}]
  /\ nav = Nil

HandlerNew(h) ==
  /\ hs[h].pc = "New"
  /\ LET b == ShouldBindQuery(hs[h].c.query)
     IN  hs' = [hs EXCEPT ![h].p = [DB |-> "sharedDB", Req |-> NewReq(b.req),
                                   TotalItems |-> 0],
                          ![h].pc = "Query"]
  /\ UNCHANGED <<impl, c, db, dbErr, p, f, queried, ret, sharedDB, nav>>

\* HandlerQuery that chains Offset and Limit onto the shared handle itself.
HandlerQuery_sharedStatement(h) ==
  /\ hs[h].pc = "Query"
  /\ LET offset == (hs[h].p.Req.Number - 1) * hs[h].p.Req.Size
         tx == AddClause(AddClause(sharedDB, "OFFSET", offset),
                         "LIMIT", hs[h].p.Req.Size)
     IN  hs' = [hs EXCEPT ![h].rows = DBFind(db, tx),
                          ![h].fetchedOf = db,
                          ![h].pc = "Count"]
  /\ sharedDB' = AddClause(AddClause(sharedDB, "OFFSET",
                              (hs[h].p.Req.Number - 1) * hs[h].p.Req.Size),
                           "LIMIT", hs[h].p.Req.Size)
  /\ UNCHANGED <<impl, c, db, dbErr, p, f, queried, ret, nav>>

\* HandlerQuery with the offset one page too far (Number * Size).
HandlerQuery_numberTimesSize(h) ==
  /\ hs[h].pc = "Query"
  /\ LET offset == hs[h].p.Req.Number * hs[h].p.Req.Size
         tx == AddClause(AddClause(sharedDB, "OFFSET", offset),
                         "LIMIT", hs[h].p.Req.Size)
     IN  hs' = [hs EXCEPT ![h].rows = DBFind(db, tx),
                          ![h].fetchedOf = db,
                          ![h].pc = "Count"]
  /\ UNCHANGED <<impl, c, db, dbErr, p, f, queried, ret, sharedDB, nav>>

HandlerQuery(h) ==
  /\ hs[h].pc = "Query"
  /\ LET offset == (hs[h].p.Req.Number - 1) * hs[h].p.Req.Size
         tx == AddClause(AddClause(sharedDB, "OFFSET", offset),
                         "LIMIT", hs[h].p.Req.Size)
     IN  hs' = [hs EXCEPT ![h].rows = DBFind(db, tx),
                          ![h].fetchedOf = db,
                          ![h].pc = "Count"]
  /\ UNCHANGED <<impl, c, db, dbErr, p, f, queried, ret, sharedDB, nav>>

HandlerCount(h) ==
  /\ hs[h].pc = "Count"
  /\ hs' = [hs EXCEPT ![h].p.TotalItems = DBCount(db, sharedDB),
                       ![h].pc = "GenerateResponse"]
  /\ UNCHANGED <<impl, c, db, dbErr, p, f, queried, ret, sharedDB, nav>>

HandlerGenerateResponse(h) ==
  /\ hs[h].pc = "GenerateResponse"
  /\ hs' = [hs EXCEPT ![h].resp = GenerateResponse(hs[h].p, hs[h].c),
                       ![h].pc = "done"]
  /\ UNCHANGED <<impl, c, db, dbErr, p, f, queried, ret, sharedDB, nav>>

\* two requests at once over a table nobody writes
InitConcurrent ==
  /\ db \in 0..MaxTotal
  /\ InitHandlers(Handlers)

NextConcurrent ==
  \/ \E h \in DOMAIN hs : HandlerNew(h)
  \/ \E h \in DOMAIN hs : HandlerQuery(h)
  \/ \E h \in DOMAIN hs : HandlerCount(h)
  \/ \E h \in DOMAIN hs : HandlerGenerateResponse(h)

SpecConcurrent == InitConcurrent /\ [][NextConcurrent]_vars

\* one request over a table that rows are inserted into meanwhile
InitReads ==
  /\ db = 0
  /\ InitHandlers({"h1"})

NextReads ==
  \/ Insert
  \/ \E h \in DOMAIN hs : HandlerNew(h)
  \/ \E h \in DOMAIN hs : HandlerQuery(h)
  \/ \E h \in DOMAIN hs : HandlerCount(h)
  \/ \E h \in DOMAIN hs : HandlerGenerateResponse(h)

SpecReads == InitReads /\ [][NextReads]_vars


\* ------------------------------------------------------------ navigation
\* A client asks for a page and then keeps asking for the page of the next
\* (or prev) link of the answer, as long as there is one.
\* url.ParseQuery of the query string of a link
RECURSIVE ParseQuery(_)
ParseQuery(pairs) ==
  IF pairs = <<>> THEN <<>>
  ELSE LET q == ParseQuery(SubSeq(pairs, 1, Len(pairs) - 1))
           k == pairs[Len(pairs)][1]
           v == pairs[Len(pairs)][2]
       IN  [x \in (DOMAIN q) \cup {k} |->
              IF x = k
              THEN (IF k \in DOMAIN q THEN q[k] ELSE <<>>) \o <<v>>
              ELSE q[x]]

\* the request a client sends for a link of the endpoint cc
RequestOf(cc, link) == [cc EXCEPT !.query = ParseQuery(link.query)]

\* what the endpoint answers: the response of the linked version for the
\* request, over a table of total rows
Serve(cc, req, total) ==
  IF impl = "part_004"
  THEN GeneratePaginationLinks(cc, req, total)
  ELSE GenerateResponse([DB |-> RootDB, Req |-> NewReq(req),
                         TotalItems |-> DBCount(total, RootDB)], cc)

\* tables small enough for every page number to be one a request can spell
NavTotals == 1..(MaxSize + MaxNumber)

CeilDiv(a, b) == (a + b - 1) \div b

InitNavigate ==
  /\ impl \in {"part_003", "part_004"}
  /\ db \in NavTotals
  /\ dbErr = Nil
  /\ p = Nil
  /\ f = Nil
  /\ queried = FALSE
  /\ sharedDB = Nil
  /\ hs = <<>>
  /\ \E size \in 1..MaxSize, dir \in {"next", "prev"} :
       LET start == IF dir = "next" THEN 1 ELSE CeilDiv(db, size)
       IN  /\ c = [TLS |-> FALSE, Scheme |-> "", Host |-> "example.com",
                   Path |-> "/users",
                   query |-> QueryOf(Itoa(size), Itoa(start), <<>>)]
           /\ nav = [dir |-> dir, size |-> size, visited |-> <<>>,
                     pending |-> TRUE]
  /\ ret = [op |-> "none"]

\* the endpoint answers the request the client sent
Answer ==
  /\ nav.pending
  /\ \E b \in {ShouldBindQuery(c.query)} :
       \E resp \in {Serve(c, b.req, db)} :
          /\ ret' = [op |-> "Serve", total |-> db, val |-> resp]
          /\ nav' = [nav EXCEPT !.pending = FALSE,
                                !.visited = Append(@, resp.Meta.CurrentPage)]
  /\ UNCHANGED <<impl, c, db, dbErr, p, f, queried, sharedDB, hs>>

\* FollowNext that asks for the page it already has.
FollowNext_samePage ==
  /\ ~nav.pending
  /\ nav.dir = "next"
  /\ ret.val.Links.Next # Nil
  /\ Len(nav.visited) <= MaxSize + MaxNumber
  /\ c' = c
  /\ nav' = [nav EXCEPT !.pending = TRUE]
  /\ UNCHANGED <<impl, db, dbErr, p, f, queried, ret, sharedDB, hs>>

FollowNext ==
  /\ ~nav.pending
  /\ nav.dir = "next"
  /\ ret.val.Links.Next # Nil
  /\ Len(nav.visited) <= MaxSize + MaxNumber
  /\ c' = RequestOf(c, ret.val.Links.Next)
  /\ nav' = [nav EXCEPT !.pending = TRUE]
  /\ UNCHANGED <<impl, db, dbErr, p, f, queried, ret, sharedDB, hs>>

FollowPrev ==
  /\ ~nav.pending
  /\ nav.dir = "prev"
  /\ ret.val.Links.Prev # Nil
  /\ Len(nav.visited) <= MaxSize + MaxNumber
  /\ c' = RequestOf(c, ret.val.Links.Prev)
  /\ nav' = [nav EXCEPT !.pending = TRUE]
  /\ UNCHANGED <<impl, db, dbErr, p, f, queried, ret, sharedDB, hs>>

NextNavigate ==
  \/ Answer
  \/ FollowNext
  \/ FollowPrev

\* the endpoint answers every request, and the client goes on while there
\* is a link to follow
SpecNavigate ==
  InitNavigate /\ [][NextNavigate]_vars /\ WF_vars(NextNavigate)

\* ------------------------------------------------------ reading a response
Min(a, b) == IF a <= b THEN a ELSE b

\* size and number as the request asked for them
Requested == ShouldBindQuery(c.query).req

\* the values a link carries for a query key
LinkParam(link, k) ==
  {link.query[i][2] : i \in {j \in 1..Len(link.query) : link.query[j][1] = k}}

\* the page number a link points to
PageRange == (0 - MaxTotal - 2)..(MaxTotal + MaxNumber + 2)
LinkPage(link) ==
  CHOOSE n \in PageRange : LinkParam(link, "page[number]") = {Itoa(n)}

\* ceil(total / size): the smallest p with p * size >= total
Ceil(total, size) ==
  CHOOSE q \in 0..total :
    /\ q * size >= total
    /\ \A r \in 0..(q - 1) : r * size < total

IsInit == ret.op \in {"InitPagination", "InitPagiantion"}
IsLinks == ret.op = "GeneratePaginationLinks"
IsResponse == ret.op = "GenerateResponse"
\* a returned page response of any version, and the total it was built for
HasResponse == IsLinks \/ IsResponse
TotalOf == IF IsResponse THEN p.TotalItems ELSE ret.total

\* ------------------------------------------------------------------- C1
\* C1: InitPagination (part_004) and New (part_003) replace a requested
\* size <= 0 by 10 and a requested number <= 0 by 1 and keep positive
\* values; the effective values are the reported Size/Number and
\* PerPage/CurrentPage.
C1_Defaults ==
  LET effSize == IF Requested.Size <= 0 THEN 10 ELSE Requested.Size
      effNumber == IF Requested.Number <= 0 THEN 1 ELSE Requested.Number
  IN  /\ (impl = "part_004" /\ ret.op = "InitPagination") =>
           /\ ret.val.Size = effSize
           /\ ret.val.Number = effNumber
      /\ (impl = "part_004" /\ IsLinks) =>
           /\ ret.val.Meta.PerPage = effSize
           /\ ret.val.Meta.CurrentPage = effNumber
      /\ (impl = "part_003" /\ p # Nil) =>
           /\ p.Req.Size = effSize
           /\ p.Req.Number = effNumber
      /\ (impl = "part_003" /\ IsResponse) =>
           /\ ret.val.Meta.PerPage = effSize
           /\ ret.val.Meta.CurrentPage = effNumber

C1_Witness ==
  /\ impl = "part_004"
  /\ ret.op = "InitPagination"
  /\ ret.req.Size < 0
  /\ ret.req.Number < 0
  /\ ret.val.Size = 10
  /\ ret.val.Number = 1

\* ------------------------------------------------------------------- C2
\* C2: the last page of a response (the page of the last link, and
\* meta.last_page in part_004) is at least 1 for every total >= 0, also
\* for total = 0.
C2_LastPageAtLeastOne ==
  /\ (impl = "part_004" /\ IsLinks) =>
       /\ ret.val.Meta.LastPage >= 1
       /\ LinkPage(ret.val.Links.Last) >= 1
  /\ (impl = "part_003" /\ IsResponse) => LinkPage(ret.val.Links.Last) >= 1

\* ------------------------------------------------------------------- C3
\* C3: for total >= 1 and effective size >= 1 the last page of a response
\* is ceil(total / size): the smallest page p with p * size >= total.
C3_LastPageIsCeil ==
  (HasResponse /\ TotalOf >= 1 /\ ret.val.Meta.PerPage >= 1) =>
     LET lp == LinkPage(ret.val.Links.Last)
         size == ret.val.Meta.PerPage
     IN  /\ lp * size >= TotalOf
         /\ (lp - 1) * size < TotalOf
         /\ impl = "part_004" => ret.val.Meta.LastPage = lp

C3_Witness ==
  /\ impl = "part_003"
  /\ IsResponse
  /\ p.TotalItems = 5
  /\ ret.val.Meta.PerPage = 2
  /\ LinkPage(ret.val.Links.Last) = 3

\* ------------------------------------------------------------------- C4
\* C4: InitPagination (part_004) returns From = min(offset + 1, total) with
\* offset = (number - 1) * size; size=10, number=2, total=5 gives From = 5
\* and To = 5.
C4_FromClamped ==
  (impl = "part_004" /\ ret.op = "InitPagination") =>
     LET v == ret.val
     IN  /\ v.Offset = (v.Number - 1) * v.Size
         /\ v.From = Min(v.Offset + 1, ret.total)
         /\ (v.Size = 10 /\ v.Number = 2 /\ ret.total = 5) =>
               (v.From = 5 /\ v.To = 5)

C4_Witness ==
  /\ impl = "part_004"
  /\ ret.op = "InitPagination"
  /\ ret.val.Size = 10
  /\ ret.val.Number = 2
  /\ ret.total = 5
  /\ ret.val.From = 5

\* ------------------------------------------------------------------- C5
\* C5: in all three versions To = min(offset + size, total) with
\* offset = (number - 1) * size, for effective size >= 1, number >= 1.
C5_ToClamped ==
  /\ (IsInit /\ ret.val.Size >= 1 /\ ret.val.Number >= 1) =>
        ret.val.To =
          Min((ret.val.Number - 1) * ret.val.Size + ret.val.Size, ret.total)
  /\ (HasResponse /\ ret.val.Meta.PerPage >= 1
                  /\ ret.val.Meta.CurrentPage >= 1) =>
        LET m == ret.val.Meta
        IN  m.To = Min((m.CurrentPage - 1) * m.PerPage + m.PerPage, TotalOf)

C5_Witness ==
  /\ impl = "pagination.go"
  /\ ret.op = "InitPagiantion"
  /\ ret.val.Size = 3
  /\ ret.val.Number = 2
  /\ ret.total = 5
  /\ ret.val.To = 5

\* ------------------------------------------------------------------- C6
\* C6: in every response of Pagination.GenerateResponse (part_003) and
\* every result of InitPagiantion (pagination.go), From <= To unless the
\* total is 0, for every page number >= 1, pages beyond the data included.
C6_FromLeTo ==
  /\ (impl = "part_003" /\ IsResponse /\ p.TotalItems # 0) =>
        ret.val.Meta.From <= ret.val.Meta.To
  /\ (impl = "pagination.go" /\ ret.op = "InitPagiantion" /\ ret.total # 0
        /\ ret.val.Size >= 1 /\ ret.val.Number >= 1) =>
        ret.val.From <= ret.val.To

C8_NextIffBeforeLast ==
  HasResponse =>
     LET m == ret.val.Meta
         hasNext == ret.val.Links.Next # Nil
     IN  /\ hasNext <=> (m.CurrentPage < LinkPage(ret.val.Links.Last))
         /\ m.PerPage >= 1 =>
              (hasNext <=> (m.CurrentPage < Ceil(TotalOf, m.PerPage)))

C8_Witness ==
  /\ impl = "part_004"
  /\ IsLinks
  /\ ret.val.Meta.CurrentPage = 2
  /\ ret.val.Meta.LastPage = 3
  /\ ret.val.Links.Next # Nil

\* ------------------------------------------------------------------- C9
\* C9: in every response the prev link is non-null iff the current
\* (effective) page number is greater than 1, whatever the total.
C9_PrevIffAfterFirst ==
  HasResponse =>
     ((ret.val.Links.Prev # Nil) <=> (ret.val.Meta.CurrentPage > 1))

C9_Witness ==
  /\ impl = "pagination.go"
  /\ IsLinks
  /\ ret.total = 0
  /\ ret.val.Meta.CurrentPage = 2
  /\ ret.val.Links.Prev # Nil

\* ------------------------------------------------------------------ C10
\* C10: in every response of part_003 and part_004 the first link carries
\* page[number]=1, the last link page[number]=ceil(total/size), a present
\* prev link current-1, a present next link current+1, and each of them
\* page[size] = the effective size; with 1 <= total <= size on page 1 the
\* first and the last link are the same link.
C10_LinkTargets ==
  (HasResponse /\ impl \in {"part_003", "part_004"}) =>
     LET m == ret.val.Meta
         l == ret.val.Links
         size == {Itoa(m.PerPage)}
     IN  /\ LinkParam(l.First, "page[number]") = {"1"}
         /\ LinkParam(l.First, "page[size]") = size
         /\ LinkParam(l.Last, "page[number]") =
              {Itoa(Ceil(TotalOf, m.PerPage))}
         /\ LinkParam(l.Last, "page[size]") = size
         /\ l.Prev # Nil =>
              /\ LinkParam(l.Prev, "page[number]") = {Itoa(m.CurrentPage - 1)}
              /\ LinkParam(l.Prev, "page[size]") = size
         /\ l.Next # Nil =>
              /\ LinkParam(l.Next, "page[number]") = {Itoa(m.CurrentPage + 1)}
              /\ LinkParam(l.Next, "page[size]") = size
         /\ (1 <= TotalOf /\ TotalOf <= m.PerPage /\ m.CurrentPage = 1) =>
              l.First = l.Last

C10_Witness ==
  /\ impl = "part_003"
  /\ IsResponse
  /\ p.TotalItems = 2
  /\ ret.val.Meta.PerPage = 3
  /\ ret.val.Meta.CurrentPage = 1
  /\ ret.val.Links.First = ret.val.Links.Last
  /\ LinkParam(ret.val.Links.Last, "page[number]") = {"1"}

\* ------------------------------------------------------------------ C11
PageKeys == {"page[size]", "page[number]"}

\* the values a link carries for a key, in their order
LinkValues(link, k) ==
  LET s == SelectSeq(link.query, LAMBDA pr : pr[1] = k)
  IN  [i \in 1..Len(s) |-> s[i][2]]

LinkKeys(link) == {link.query[i][1] : i \in 1..Len(link.query)}

\* the links of the returned response that are not null
PresentLinks ==
  {ret.val.Links.First, ret.val.Links.Last,
   ret.val.Links.Next, ret.val.Links.Prev} \ {Nil}

\* the link has every parameter of q other than the page keys, with the
\* values of q, and no key besides those and the page keys
KeepsOtherParams(link, q) ==
  /\ \A k \in (DOMAIN q) \ PageKeys : LinkValues(link, k) = q[k]
  /\ LinkKeys(link) \subseteq (DOMAIN q) \cup PageKeys

\* C11: every link built by Pagination.GenerateResponse (part_003) and by
\* GeneratePaginationLinks (part_004) has every query parameter of the
\* inbound request other than page[size] and page[number], with the same
\* values; only those two keys are removed or overwritten.
C11_LinksKeepQuery ==
  (HasResponse /\ impl \in {"part_003", "part_004"}) =>
     \A link \in PresentLinks : KeepsOtherParams(link, c.query)

C11_Witness ==
  /\ impl = "part_004"
  /\ IsLinks
  /\ "search" \in DOMAIN c.query
  /\ ret.val.Links.Next # Nil
  /\ ret.val.Links.Prev # Nil
  /\ LinkValues(ret.val.Links.Next, "search") = <<"go">>
  /\ LinkValues(ret.val.Links.Prev, "search") = <<"go">>

\* ------------------------------------------------------------------ C12
\* C12: GeneratePaginationLinks of pagination.go builds its links from the
\* request's full query-parameter set: a request with extra parameters
\* yields links that still carry them.
C12_LinksKeepQuery_pagination_go ==
  (impl = "pagination.go" /\ IsLinks) =>
     \A link \in PresentLinks : KeepsOtherParams(link, c.query)

\* ------------------------------------------------------------------ C13
Max(a, b) == IF a >= b THEN a ELSE b

\* C13: Pagination.Query restricts the fetch to offset (number - 1) * size
\* and limit size: on a table of total rows it finds exactly
\* min(size, max(0, total - offset)) rows, those at positions
\* offset+1 .. min(offset+size, total); a page beyond the data is empty.
C13_QueryWindow ==
  (impl = "part_003" /\ ret.op = "Query") =>
     LET size == IF Requested.Size <= 0 THEN 10 ELSE Requested.Size
         number == IF Requested.Number <= 0 THEN 1 ELSE Requested.Number
         offset == (number - 1) * size
     IN  /\ ret.offset = offset
         /\ ret.limit = size
         /\ Len(ret.rows) = Min(size, Max(0, ret.total - offset))
         /\ \A i \in 1..Len(ret.rows) : ret.rows[i] = offset + i

C13_Witness ==
  /\ impl = "part_003"
  /\ ret.op = "Query"
  /\ ret.total = 5
  /\ ret.limit = 3
  /\ ret.offset = 3
  /\ ret.rows = <<4, 5>>

\* ------------------------------------------------------------------ C14
\* C14: every Count stores in TotalItems the number of rows of the table,
\* whatever the request's size and number and whether or not Query was
\* called on the same Pagination before.
C14_CountIsTotal == [][Count => p'.TotalItems = db]_vars

C14_Witness ==
  /\ impl = "part_003"
  /\ queried
  /\ ret.op = "Count"
  /\ p.Req.Number = 2
  /\ p.Req.Size = 3
  /\ db = 5
  /\ p.TotalItems = 5

\* ------------------------------------------------------------------ C15
\* C15: InitPagiantion of pagination.go applies the defaults to every
\* non-positive input: its result has Size >= 1, Number >= 1, Offset >= 0.
C15_Defaults_pagination_go ==
  (impl = "pagination.go" /\ ret.op = "InitPagiantion") =>
     /\ ret.val.Size >= 1
     /\ ret.val.Number >= 1
     /\ ret.val.Offset >= 0

\* ------------------------------------------------------------------ C16
\* the query strings of the model that are no decimal integer
NonNumeric == {"abc"}
BindingFails == \E k \in PageKeys : ValuesGet(c.query, k) \in NonNumeric

\* C16: when the binding of the query parameters fails, New returns a nil
\* Pagination and the error and does nothing else; when it succeeds the
\* error is nil and Req holds the bound size and number (the defaults
\* standing in for values <= 0).
C16_NewBinding ==
  (impl = "part_003" /\ ret.op = "New") =>
     /\ BindingFails => (ret.err /\ p = Nil /\ ~queried)
     /\ ~BindingFails =>
          /\ ~ret.err
          /\ p # Nil
          /\ p.Req.Size = (IF Requested.Size > 0 THEN Requested.Size ELSE 10)
          /\ p.Req.Number =
               (IF Requested.Number > 0 THEN Requested.Number ELSE 1)
          /\ p.TotalItems = 0

C16_Witness ==
  /\ impl = "part_003"
  /\ ret.op = "New"
  /\ ret.err
  /\ p = Nil
  /\ ValuesGet(c.query, "page[number]") = "abc"

\* ------------------------------------------------------------------ C17
\* the part sub occurs in the string msg
Contains(msg, sub) ==
  \E i \in 1..Len(msg) :
    /\ i + Len(sub) - 1 <= Len(msg)
    /\ SubSeq(msg, i, i + Len(sub) - 1) = sub

IsAPIResponse ==
  ret.op \in {"PaginatedAPIResponse", "PaginatedAPIResponseWithIncludes"}

\* C17: when the count or the fetch fails, PaginatedAPIResponse and
\* PaginatedAPIResponseWithIncludes answer with code 500 and a generic
\* message that does not contain the text of the error; on success with
\* code 200 and the caller's message.
C17_GenericServerError ==
  (impl = "helpers.go" /\ IsAPIResponse) =>
     /\ dbErr # Nil =>
          (ret.val.Code = 500 /\ ~Contains(ret.val.Message, Error(dbErr)))
     /\ dbErr = Nil =>
          (ret.val.Code = 200 /\ ret.val.Message = ret.message)

\* ------------------------------------------------------------------ C18
\* the positions of the requested names that are keys of the whitelist
AllowedPositions(ff, requested) ==
  {i \in 1..Len(requested) : requested[i] \in DOMAIN GetAllowedIncludes(ff)}

\* the k-th smallest element of a set of positions
Nth(S, k) == CHOOSE i \in S : Cardinality({j \in S : j <= i}) = k

\* C18: Validate keeps exactly the requested include names that are
\* verbatim keys of GetAllowedIncludes, in the order requested; a dotted
\* path is kept only when that exact path is a key, unknown names are
\* dropped, and when nothing matches the result is empty.
C18_ValidateKeepsWhitelisted ==
  ret.op = "Validate" =>
     LET pos == AllowedPositions(f, ret.requested)
     IN  /\ Len(f.Includes) = Cardinality(pos)
         /\ \A k \in 1..Len(f.Includes) :
              f.Includes[k] = ret.requested[Nth(pos, k)]
         /\ (pos = {} => f.Includes = <<>>)

\* a dotted path whose first segment alone is whitelisted was requested
\* after an allowed name, and only the allowed name is left
C18_Witness ==
  /\ ret.op = "Validate"
  /\ f.type = "UserFilter"
  /\ ret.requested = <<"Unknown", "Profile", "Profile.Address">>
  /\ f.Includes = <<"Profile">>

\* ------------------------------------------------------------------ C19
\* C19: Validate collapses duplicates: an allowed name requested more than
\* once is in the resolved list exactly once, at its first occurrence.
C19_ValidateCollapsesDuplicates ==
  ret.op = "Validate" =>
     /\ \A i, j \in 1..Len(f.Includes) :
          f.Includes[i] = f.Includes[j] => i = j
     /\ \A i, j \in 1..Len(f.Includes) :
          i < j =>
            Nth({k \in 1..Len(ret.requested) : ret.requested[k] = f.Includes[i]}, 1)
              < Nth({k \in 1..Len(ret.requested) : ret.requested[k] = f.Includes[j]}, 1)

\* ------------------------------------------------------------------ C20
\* C20: the effective number of items per page never exceeds 100: a request
\* asking for more is limited to 100, and no fetch is issued with a limit
\* above 100.
C20_PerPageAtMost100 ==
  /\ (impl = "part_003" /\ p # Nil) => p.Req.Size <= MaxPerPage
  /\ (impl = "part_003" /\ ret.op = "Query") => ret.limit <= MaxPerPage
  /\ (impl = "part_004" /\ ret.op = "InitPagination") =>
        ret.val.Size <= MaxPerPage

\* ------------------------------------------------------------------ C21
\* the positions of a name that hold the character ch
Positions(name, ch) == {i \in 1..Len(name) : name[i] = ch}

\* the field names the operations of a built query carry
FieldsOf(ops) == {ops[i].field : i \in 1..Len(ops)}

\* C21: the field validator accepts a candidate iff it is a non-empty
\* string of letters, digits and underscores with at most one dot; a string
\* with whitespace, ';', a quote or any other character is rejected, and a
\* rejected sort field, search field or include name is left out of the
\* query without an error.
C21_ValidatorPattern ==
  ret.op = "BuildQuery" =>
     LET name == ret.candidate
         wellFormed ==
           /\ name # <<>>
           /\ \A i \in 1..Len(name) : name[i] \in {"a", "1", "_", "."}
           /\ Cardinality(Positions(name, ".")) <= 1
     IN  /\ isValidIdentifier(name) <=> wellFormed
         /\ (\E i \in 1..Len(name) : name[i] \in {" ", ";", "'"}) =>
               ~isValidIdentifier(name)
         /\ ret.val.err = Nil
         /\ (name \in FieldsOf(ret.val.ops)) <=> wellFormed

\* a name with two dots is offered as an include and left out, and a
\* payload with ';' is offered as the sort field and replaced by the default
C21_Witness ==
  /\ ret.op = "BuildQuery"
  /\ \/ /\ ret.role = "include"
        /\ ret.candidate = <<"a", ".", ".">>
        /\ ret.val.ops = <<>>
     \/ /\ ret.role = "sort"
        /\ ret.candidate = <<"a", ";", "a">>
        /\ FieldsOf(ret.val.ops) = {DefaultSort}

\* ------------------------------------------------------------------ C22
IsPaginate ==
  ret.op \in {"PaginateModel", "PaginateWithIncludes", "PaginateWithFilter",
              "QuickPaginate"}

\* C22: PaginateModel, PaginateWithIncludes, PaginateWithFilter and
\* QuickPaginate are fail-fast: when PaginatedQuery fails they return nil
\* data, the zero PaginationResponse and that same error, with no metadata
\* computed and no second query; the metadata is computed only after a
\* successful count and fetch, in the order bind, query, compute.
C22_FailFast ==
  (impl = "helpers.go" /\ IsPaginate) =>
     /\ dbErr # Nil =>
          /\ ret.val.data = Nil
          /\ ret.val.pagination = ZeroPaginationResponse
          /\ ret.val.err = dbErr
          /\ ret.val.calls = <<"BindPagination", "PaginatedQuery">>
     /\ dbErr = Nil =>
          /\ ret.val.err = Nil
          /\ ret.val.calls =
               <<"BindPagination", "PaginatedQuery", "CalculatePagination">>
          /\ ret.val.pagination.Total = ret.total

C22_Witness ==
  /\ impl = "helpers.go"
  /\ ret.op = "PaginateModel"
  /\ dbErr # Nil
  /\ ret.total > 0
  /\ ret.val.err = dbErr
  /\ ret.val.data = Nil

\* ------------------------------------------------------------- C25, C26
\* the typed fields a filter type declares
FieldsOfType(type) ==
  CASE type = "ProvinceFilter" -> {"ID", "Name", "Code"}
    [] type = "AthleteFilter" ->
         {"ID", "ProvinceID", "SportID", "EventID", "MinAge", "MaxAge",
          "IsActive"}
    [] type = "EventFilter" ->
         {"ID", "Name", "Location", "IsActive", "Year", "SportID",
          "StartDate", "EndDate"}

\* the field holds the zero value of its type
IsZeroValue(field, v) ==
  CASE field \in {"Name", "Code", "Location"} -> v = ""
    [] field = "IsActive" -> v = FALSE
    [] field \in {"StartDate", "EndDate"} -> v = [sec |-> 0, nsec |-> 0]
    [] OTHER -> v = 0

\* the column a field constrains
ColumnOf(type, field) ==
  CASE field = "ID" -> {"id = ?"}
    [] field = "Name" -> {"name LIKE ?"}
    [] field = "Code" -> {"code = ?"}
    [] field = "ProvinceID" -> {"province_id = ?"}
    [] field = "SportID" -> {"sport_id = ?"}
    [] field = "EventID" -> {"event_id = ?"}
    [] field = "MinAge" -> {"age >= ?"}
    [] field = "MaxAge" -> {"age <= ?"}
    [] field = "Year" -> {"YEAR(start_date) = ?"}
    [] field = "StartDate" -> {"start_date >= ?"}
    [] field = "EndDate" -> {"end_date <= ?"}
    [] field = "Location" -> {"location LIKE ?", "location = ?"}
    [] field = "IsActive" -> {"is_active = ?"}

\* the conditions of a statement
Conditions(query) ==
  IF "WHERE" \in DOMAIN query.Statement THEN query.Statement["WHERE"] ELSE <<>>

\* the conditions of a statement that constrain the column of a field
ConditionsOn(query, type, field) ==
  {i \in 1..Len(Conditions(query)) :
      Conditions(query)[i].sql \in ColumnOf(type, field)}

\* C25: ApplyFilters of ProvinceFilter, AthleteFilter and EventFilter adds
\* no constraint for a field that holds its zero value; applied to a filter
\* whose typed fields are all zero it returns the query as it was.
C25_ZeroFieldsSkipped ==
  ret.op = "ApplyFilters" =>
     /\ \A field \in FieldsOfType(f.type) :
          IsZeroValue(field, f[field]) => ConditionsOn(ret.val, f.type, field) = {}
     /\ (\A field \in FieldsOfType(f.type) : IsZeroValue(field, f[field])) =>
          ret.val = RootDB

C25_Witness ==
  /\ ret.op = "ApplyFilters"
  /\ f.type = "AthleteFilter"
  /\ \A field \in FieldsOfType(f.type) : IsZeroValue(field, f[field])
  /\ ret.val = RootDB

\* C26: ApplyFilters of AthleteFilter and EventFilter turns every typed
\* field that holds a non-zero / non-empty value into exactly one constraint
\* for that field.
C26_NonZeroFieldsConstrain ==
  (ret.op = "ApplyFilters" /\ f.type \in {"AthleteFilter", "EventFilter"}) =>
     \A field \in FieldsOfType(f.type) :
        ~IsZeroValue(field, f[field]) =>
           Cardinality(ConditionsOn(ret.val, f.type, field)) = 1

\* ------------------------------------------------------------------ C27
\* the window InitPagination gives page n for the size and total of the
\* returned one
WindowOf(n) == InitPagination([Size |-> ret.val.Size, Number |-> n], ret.total)

\* C27: for total >= 1 and size >= 1 the windows [From, To] InitPagination
\* (part_004) returns for the pages 1 .. lastPage partition the items: From
\* of page 1 is 1, From of page n + 1 is To of page n plus 1, To of lastPage
\* is total, and every item 1..total lies in exactly one page.
C27_WindowsPartition ==
  (impl = "part_004" /\ ret.op = "InitPagination" /\ ret.total >= 1) =>
     LET lastPage == Ceil(ret.total, ret.val.Size)
     IN  /\ ret.val.Number \in 1..lastPage => WindowOf(ret.val.Number) = ret.val
         /\ WindowOf(1).From = 1
         /\ \A n \in 1..(lastPage - 1) : WindowOf(n + 1).From = WindowOf(n).To + 1
         /\ WindowOf(lastPage).To = ret.total
         /\ \A i \in 1..ret.total :
              Cardinality({n \in 1..lastPage :
                             WindowOf(n).From <= i /\ i <= WindowOf(n).To}) = 1

\* the last of several pages, shorter than the others, was returned
C27_Witness ==
  /\ impl = "part_004"
  /\ ret.op = "InitPagination"
  /\ ret.total = 7
  /\ ret.val.Size = 3
  /\ ret.val.Number = 3
  /\ ret.val.From = 7
  /\ ret.val.To = 7

\* ------------------------------------------------------------------ C28
\* C28: every link of GeneratePaginationLinks / GenerateResponse (first,
\* last, and next / prev when present) points to a page within
\* 1 .. max(1, lastPage), for every total >= 0 and every requested page
\* number >= 1, also beyond the last page.
C28_LinksWithinPages ==
  (HasResponse /\ impl \in {"part_003", "part_004"} /\ Requested.Number >= 1) =>
     LET lastPage == Ceil(TotalOf, ret.val.Meta.PerPage)
     IN  \A link \in PresentLinks :
            LinkPage(link) \in 1..Max(1, lastPage)

\* ------------------------------------------------------------------ C30
\* C30: within one Pagination only Count changes state: Query and
\* GenerateResponse leave Req, TotalItems and the URL of the inbound request
\* unchanged, so Req stays what New set, GenerateResponse uses the
\* TotalItems of the most recent Count (0 when there was none), and two
\* consecutive GenerateResponse calls return equal responses.
C30_OnlyCountChangesState ==
  /\ [](p # Nil => p.Req = NewReq(Requested))
  /\ [][/\ Query => (p' = p /\ c' = c)
        /\ CallGenerateResponse => (p' = p /\ c' = c)
        /\ New => (p' # Nil => p'.TotalItems = 0)
        /\ (p # Nil /\ ~Count) => p'.TotalItems = p.TotalItems
        /\ CallGenerateResponse =>
             /\ ret'.val.Meta.To =
                  Min(p.Req.Number * p.Req.Size, p.TotalItems)
             /\ LinkPage(ret'.val.Links.Last) = Ceil(p.TotalItems, p.Req.Size)
        /\ (IsResponse /\ ret'.op = "GenerateResponse" /\ p' = p) =>
             ret' = ret]_vars

\* a response built after a Query and a Count that found rows
C30_Witness ==
  /\ impl = "part_003"
  /\ IsResponse
  /\ queried
  /\ p.TotalItems = 5
  /\ ret.val.Meta.To = 3

\* ------------------------------------------------------------------ C23
\* what a request gets when its handler runs alone on a table of total rows
AloneReq(h) == NewReq(ShouldBindQuery(hs[h].c.query).req)

AloneRows(h, total) ==
  Find(total, (AloneReq(h).Number - 1) * AloneReq(h).Size, AloneReq(h).Size)

AloneResponse(h, total) ==
  GenerateResponse([DB |-> "sharedDB", Req |-> AloneReq(h),
                    TotalItems |-> total], hs[h].c)

\* C23: two requests processed at once, each with its own Pagination from
\* New over the same database handle and with no writes: in every
\* interleaving of their Query, Count and GenerateResponse steps each
\* request has the TotalItems and the response it has when it runs alone.
C23_HandlersIndependent ==
  \A h \in DOMAIN hs :
     /\ hs[h].pc \in {"Count", "GenerateResponse", "done"} =>
          hs[h].rows = AloneRows(h, db)
     /\ hs[h].pc \in {"GenerateResponse", "done"} =>
          hs[h].p.TotalItems = db
     /\ hs[h].pc = "done" => hs[h].resp = AloneResponse(h, db)

\* both requests are answered, one for the first page and one for a later
\* page of a table with rows, the later one having queried first
C23_Witness ==
  /\ DOMAIN hs = Handlers
  /\ db = 5
  /\ hs["h1"].pc = "done"
  /\ hs["h2"].pc = "done"
  /\ hs["h1"].p.Req = [Size |-> 2, Number |-> 1]
  /\ hs["h2"].p.Req = [Size |-> 2, Number |-> 3]
  /\ hs["h1"].p.TotalItems = 5
  /\ hs["h2"].rows = <<5>>

\* ------------------------------------------------------------------ C24
\* the rows the response of a handler reports: To - From + 1
Reported(h) == hs[h].resp.Meta.To - hs[h].resp.Meta.From + 1

\* C24: count and fetch are two unsynchronised reads.  A row inserted
\* between Query and Count makes the number of fetched rows differ from
\* To - From + 1 of the response (C24_Witness); with no write between the
\* two reads and a page within the data the two agree.
C24_CountFetchAgree ==
  \A h \in DOMAIN hs :
     (/\ hs[h].pc = "done"
      /\ hs[h].fetchedOf = hs[h].p.TotalItems
      /\ hs[h].resp.Meta.From <= hs[h].p.TotalItems)
        => Len(hs[h].rows) = Reported(h)

\* a row came between the fetch and the count, and the response reports
\* more rows than were fetched
C24_Witness ==
  /\ DOMAIN hs = {"h1"}
  /\ hs["h1"].pc = "done"
  /\ hs["h1"].fetchedOf = 2
  /\ hs["h1"].p.TotalItems = 3
  /\ hs["h1"].resp.Meta.From = 1
  /\ Len(hs["h1"].rows) = 2
  /\ Reported("h1") = 3

\* ------------------------------------------------------------------ C29
\* the pages 1 .. n in order, and n .. 1
Upward(n) == [i \in 1..n |-> i]
Downward(n) == [i \in 1..n |-> n + 1 - i]

IsPrefix(s, t) == Len(s) <= Len(t) /\ s = SubSeq(t, 1, Len(s))

NavLastPage == Ceil(db, nav.size)

\* the pages the client is to visit, in order
NavRoute ==
  IF nav.dir = "next" THEN Upward(NavLastPage) ELSE Downward(NavLastPage)

\* the client has the answer that has no link to go on with
NavEnded ==
  /\ ~nav.pending
  /\ ret.op = "Serve"
  /\ (IF nav.dir = "next" THEN ret.val.Links.Next ELSE ret.val.Links.Prev) = Nil

\* C29: for total >= 1, starting at page 1 and following the next link
\* (same size, same total) visits the pages 1, 2, ..., lastPage in order
\* and then gets a null next link, after exactly lastPage - 1 steps;
\* following prev from lastPage reaches page 1, where prev is null.
C29_NavigationTerminates ==
  /\ [](IsPrefix(nav.visited, NavRoute))
  /\ [](NavEnded => nav.visited = NavRoute)
  /\ <>NavEnded

\* the client went from page 1 to the last of four pages
C29_Witness ==
  /\ nav # Nil
  /\ nav.dir = "next"
  /\ NavEnded
  /\ nav.visited = <<1, 2, 3, 4>>
  /\ db = 7
  /\ nav.size = 2

====
